---- MODULE Spec2Model ----
(***************************************************************************)
(* Model of the graph editor component (src/src/components/GraphEditor.tsx) *)
(* the node/edge store, identifier allocation, the persistence codec, the  *)
(* node edit dialog with its asynchronous image decoding, the estimate     *)
(* summary, and the export geometry transform.                             *)
(***************************************************************************)
EXTENDS Integers, Sequences, FiniteSets, TLC

(* ---------- bounds of the model ---------- *)
MaxNodes == 3
MaxEdges == 2
MaxId == 3
MaxPending == 1
MaxSummaryNodes == 2

(* ---------- markers for JavaScript's absent values ---------- *)
Undefined == "undefined"
Null == "null"
Unmeasured == -1

(* ---------- Constants (GraphEditor.tsx 83-99) ---------- *)
WORK_TYPES ==
  << "Design-simple", "Design-medium", "Design-complex",
     "Coding-simple", "Coding-medium", "Coding-complex" >>

WorkTypeSet == { WORK_TYPES[i] : i \in 1..Len(WORK_TYPES) }

DEFAULT_RATES ==
  [ w \in WorkTypeSet |->
      CASE w = "Design-simple" -> 100
        [] w = "Design-medium" -> 200
        [] w = "Design-complex" -> 300
        [] w = "Coding-simple" -> 150
        [] w = "Coding-medium" -> 300
        [] w = "Coding-complex" -> 450 ]

DefaultOffsetY == 150

(* `${n}` : the decimal text of a number *)
IdText(n) == ToString(n)

(* the number a decimal id text denotes; -1 when the text is not a number *)
NumericId(s) ==
  IF \E n \in 0..(MaxId + 5) : IdText(n) = s
  THEN CHOOSE n \in 0..(MaxId + 5) : IdText(n) = s
  ELSE -1

(* ---------- Helpers (GraphEditor.tsx 102-123) ---------- *)
DefaultData(id) ==
  [ label |-> "Node " \o id,
    comment |-> "",
    image |-> Null,
    uploading |-> "no",
    designType |-> "new",
    designDifficulty |-> "simple",
    codingType |-> "new",
    codingDifficulty |-> "simple" ]

createChildNode(parentPos, id, offsetY) ==
  [ id |-> id,
    type |-> "graphNode",
    position |-> [ x |-> parentPos.x, y |-> parentPos.y + offsetY ],
    width |-> Unmeasured,
    height |-> Unmeasured,
    data |-> DefaultData(id) ]

VARIABLES
  nodes,            \* useState nodes (214)
  edges,            \* useState edges (217)
  rates,            \* useState rates (218)
  defaultRates,     \* what the module's DEFAULT_RATES object holds (92-99)
  ratesShared,      \* the rates state is the DEFAULT_RATES object itself
  idCounter,        \* useRef idCounter (221)
  selectedNodeId,   \* useState selectedNodeId (223)
  isDialogOpen,     \* useState isDialogOpen (224)
  formState,        \* useState formState (227)
  selectedEdge,     \* useState selectedEdge (220)
  edgeComment,      \* useState edgeComment (219)
  pending,          \* FileReaders whose onload has not run yet
  savedFile,        \* the document written by the last handleSave
  lastOp,           \* the handler that ran last and how it ended
  hideBackground,   \* useState hideBackground (212)
  exportPc,         \* where a running exportImage stands: idle, waiting, rasterizing
  style,            \* the inline styles exportImage reads and writes
  dom,              \* which elements exportImage's queries find
  exportSaved,      \* css and vpOrigTf of the running exportImage
  styleAtCall,      \* history: the styles when exportImage was last called
  capture,          \* the width and height exportImage last passed to toPng
  summary,          \* the rows and the total of the summary table rendered last
  requested         \* history: each image a decode was requested for, with its target node

exportVars == << hideBackground, exportPc, style, dom, exportSaved, styleAtCall, capture >>

rateObject == << defaultRates, ratesShared >>

(* what the store's handlers leave alone *)
auxVars == << exportVars, requested, summary >>

vars == << nodes, edges, rates, rateObject, idCounter, selectedNodeId, isDialogOpen,
           formState, selectedEdge, edgeComment, pending, savedFile,
           lastOp, exportVars, summary, requested >>

(* ---------- derived values of a render ---------- *)
SelIdx(nds, sel) ==
  IF \E i \in 1..Len(nds) : nds[i].id = sel
  THEN CHOOSE i \in 1..Len(nds) :
         nds[i].id = sel /\ \A j \in 1..(i - 1) : nds[j].id # sel
  ELSE 0

(* nodes.find((n) => n.id === selectedNodeId) ?? null  (229); the node is
   read only where HasSelected holds *)
HasSelected(nds, sel) == SelIdx(nds, sel) # 0
selectedNode(nds, sel) == nds[SelIdx(nds, sel)]

(* useEffect(() => { if (selectedNode) setFormState({...selectedNode.data}) },
   [selectedNode])  (234): runs when the selected node object is another
   object than at the previous render *)
FormSync(nds, sel, fresh, form) ==
  IF fresh /\ HasSelected(nds, sel)
  THEN selectedNode(nds, sel).data
  ELSE form

(* how a handler ended: normally, with an exception it caught itself, or with
   an exception that left it *)
Done(name) == [ op |-> name, caught |-> FALSE, thrown |-> FALSE ]
Caught(name) == [ op |-> name, caught |-> TRUE, thrown |-> FALSE ]
Thrown(name) == [ op |-> name, caught |-> FALSE, thrown |-> TRUE ]

(* the inline styles of the diagram root (.react-flow), of its viewport layer
   and of its edge layer as the rendering surface mounts them *)
MountedStyle ==
  [ w |-> "100%", h |-> "100%", tf |-> "",
    vp |-> "translate(0px, 0px) scale(1)", edge |-> "" ]

NothingSaved == [ w |-> "", h |-> "", tf |-> "", vp |-> Null ]

(* before the first toPng call, before the first summary table *)
NoCapture == [ width |-> 0, height |-> 0 ]
NoSummary == [ filter |-> Null, rows |-> << >>, total |-> 0 ]

Init ==
  /\ nodes = << createChildNode([ x |-> 250, y |-> 25 ], "1", 0) >>
  /\ edges = << >>
  /\ rates = DEFAULT_RATES
  /\ defaultRates = DEFAULT_RATES
  /\ ratesShared = FALSE
  /\ idCounter = 2
  /\ selectedNodeId = Null
  /\ isDialogOpen = FALSE
  /\ formState = DefaultData("tmp")
  /\ selectedEdge = Null
  /\ edgeComment = ""
  /\ pending = {}
  /\ savedFile = << >>
  /\ lastOp = Done("init")
  /\ hideBackground = FALSE
  /\ exportPc = "idle"
  /\ style = MountedStyle
  /\ styleAtCall = MountedStyle
  /\ dom = [ flowRoot |-> TRUE, vp |-> TRUE, edgeLayer |-> TRUE ]
  /\ exportSaved = NothingSaved
  /\ capture = NoCapture
  /\ summary = NoSummary
  /\ requested = {}

(* ---------- Graph events (GraphEditor.tsx 331-356) ---------- *)
NodeIds == { nodes[i].id : i \in 1..Len(nodes) }
EdgeIds == { edges[i].id : i \in 1..Len(edges) }

onNodeClick(id) ==
  /\ selectedNodeId' = id
  /\ formState' = FormSync(nodes, id, SelIdx(nodes, id) # SelIdx(nodes, selectedNodeId),
                           formState)
  /\ lastOp' = Done("onNodeClick")
  /\ UNCHANGED << auxVars, rateObject, nodes, edges, rates, idCounter, isDialogOpen, selectedEdge,
                  edgeComment, pending, savedFile >>

onNodeDoubleClick(id) ==
  /\ selectedNodeId' = id
  /\ isDialogOpen' = TRUE
  /\ formState' = FormSync(nodes, id, SelIdx(nodes, id) # SelIdx(nodes, selectedNodeId),
                           formState)
  /\ lastOp' = Done("onNodeDoubleClick")
  /\ UNCHANGED << auxVars, rateObject, nodes, edges, rates, idCounter, selectedEdge, edgeComment,
                  pending, savedFile >>

(* const parent = nodes[0] *)
firstNodeParent == IF Len(nodes) > 0 THEN 1 ELSE 0

(* const parent = selectedNode ?? nodes[0]: its place in nodes, 0 when
   nodes[0] is undefined *)
addNodeParent ==
  IF HasSelected(nodes, selectedNodeId)
  THEN SelIdx(nodes, selectedNodeId)
  ELSE IF Len(nodes) > 0 THEN 1 ELSE 0

NewEdge(parentId, newId) ==
  [ id |-> "e" \o parentId \o "-" \o newId,
    source |-> parentId,
    target |-> newId,
    type |-> "smoothstep",
    sourceHandle |-> Undefined,
    targetHandle |-> Undefined,
    comment |-> Undefined,
    label |-> Undefined ]

NextCounter(c) == c + 1

addNode ==
  /\ idCounter <= MaxId
  /\ LET parent == nodes[addNodeParent]
         newId == IdText(idCounter)
     IN /\ idCounter' = NextCounter(idCounter)
        /\ IF addNodeParent = 0
           THEN \* createChildNode reads parent.position: TypeError
                /\ lastOp' = Thrown("addNode")
                /\ UNCHANGED << nodes, edges, formState >>
           ELSE /\ Len(nodes) < MaxNodes
                /\ Len(edges) < MaxEdges
                /\ nodes' = Append(nodes, createChildNode(parent.position, newId, DefaultOffsetY))
                /\ edges' = Append(edges, NewEdge(parent.id, newId))
                /\ formState' = FormSync(nodes', selectedNodeId,
                                         SelIdx(nodes', selectedNodeId) # SelIdx(nodes, selectedNodeId),
                                         formState)
                /\ lastOp' = Done("addNode")
  /\ UNCHANGED << auxVars, rateObject, rates, selectedNodeId, isDialogOpen, selectedEdge, edgeComment,
                  pending, savedFile >>

(* applyNodeChanges with one change of type "remove" *)
RemoveNode(nds, id) == SelectSeq(nds, LAMBDA n : n.id # id)

(* applyNodeChanges with one change of type "position" *)
MoveNode(nds, id, pos) ==
  [ i \in 1..Len(nds) |-> IF nds[i].id = id THEN [ nds[i] EXCEPT !.position = pos ] ELSE nds[i] ]

onNodesChangeRemove(id) ==
  /\ nodes' = RemoveNode(nodes, id)
  /\ lastOp' = Done("onNodesChangeRemove")
  /\ UNCHANGED << auxVars, rateObject, edges, rates, idCounter, selectedNodeId, isDialogOpen, formState,
                  selectedEdge, edgeComment, pending, savedFile >>

onNodesChangePosition(id, pos) ==
  /\ nodes' = MoveNode(nodes, id, pos)
  /\ formState' = FormSync(nodes', selectedNodeId, selectedNodeId = id, formState)
  /\ lastOp' = Done("onNodesChangePosition")
  /\ UNCHANGED << auxVars, rateObject, edges, rates, idCounter, selectedNodeId, isDialogOpen,
                  selectedEdge, edgeComment, pending, savedFile >>

(* applyEdgeChanges with one change of type "remove" *)
RemoveEdge(eds, id) == SelectSeq(eds, LAMBDA e : e.id # id)

onEdgesChangeRemove(id) ==
  /\ edges' = RemoveEdge(edges, id)
  /\ lastOp' = Done("onEdgesChangeRemove")
  /\ UNCHANGED << auxVars, rateObject, nodes, rates, idCounter, selectedNodeId, isDialogOpen, formState,
                  selectedEdge, edgeComment, pending, savedFile >>

(* the connection the rendering surface reports for a drag from the bottom
   handle of one node card to the top handle of another (128, 143) *)
Connection(src, tgt) ==
  [ source |-> src, target |-> tgt,
    sourceHandle |-> src \o "-out", targetHandle |-> tgt \o "-in" ]

connectionExists(e, eds) ==
  \E i \in 1..Len(eds) :
    /\ eds[i].source = e.source
    /\ eds[i].target = e.target
    /\ eds[i].sourceHandle = e.sourceHandle
    /\ eds[i].targetHandle = e.targetHandle

(* an addEdge that appends without looking for the connection *)
addEdgeAlways(p, eds) ==
  Append(eds, [ id |-> "reactflow__edge-" \o p.source \o p.sourceHandle \o "-"
                         \o p.target \o p.targetHandle,
                source |-> p.source,
                target |-> p.target,
                type |-> Undefined,
                sourceHandle |-> p.sourceHandle,
                targetHandle |-> p.targetHandle,
                comment |-> Undefined,
                label |-> Undefined ])

(* addEdge(p, eds) of the rendering surface, as onConnect uses it *)
addEdge(p, eds) ==
  LET e == [ id |-> "reactflow__edge-" \o p.source \o p.sourceHandle \o "-"
                      \o p.target \o p.targetHandle,
             source |-> p.source,
             target |-> p.target,
             type |-> Undefined,
             sourceHandle |-> p.sourceHandle,
             targetHandle |-> p.targetHandle,
             comment |-> Undefined,
             label |-> Undefined ]
  IN IF connectionExists(e, eds) THEN eds ELSE Append(eds, e)

onConnect(src, tgt) ==
  /\ Len(addEdge(Connection(src, tgt), edges)) <= MaxEdges
  /\ edges' = addEdge(Connection(src, tgt), edges)
  /\ lastOp' = Done("onConnect")
  /\ UNCHANGED << auxVars, rateObject, nodes, rates, idCounter, selectedNodeId, isDialogOpen, formState,
                  selectedEdge, edgeComment, pending, savedFile >>

(* ---------- Edge comment dialog (GraphEditor.tsx 353-356, 521-532) ---------- *)
CommentInputs == { "", "t" }

onEdgeDoubleClick(i) ==
  /\ selectedEdge' = edges[i].id
  /\ edgeComment' = IF edges[i].comment \in { Undefined, "" } THEN "" ELSE edges[i].comment
  /\ lastOp' = Done("onEdgeDoubleClick")
  /\ UNCHANGED << auxVars, rateObject, nodes, edges, rates, idCounter, selectedNodeId, isDialogOpen,
                  formState, pending, savedFile >>

(* <Textarea value={edgeComment} onChange=...>, rendered while the dialog is open *)
editEdgeComment(text) ==
  /\ selectedEdge # Null
  /\ edgeComment' = text
  /\ lastOp' = Done("editEdgeComment")
  /\ UNCHANGED << auxVars, rateObject, nodes, edges, rates, idCounter, selectedNodeId, isDialogOpen,
                  formState, selectedEdge, pending, savedFile >>

SetComment(e, text) == [ e EXCEPT !.comment = text, !.label = text ]

saveEdgeComment ==
  /\ selectedEdge # Null
  /\ edges' = [ i \in 1..Len(edges) |->
                  IF edges[i].id = selectedEdge THEN SetComment(edges[i], edgeComment)
                  ELSE edges[i] ]
  /\ selectedEdge' = Null
  /\ lastOp' = Done("saveEdgeComment")
  /\ UNCHANGED << auxVars, rateObject, nodes, rates, idCounter, selectedNodeId, isDialogOpen, formState,
                  edgeComment, pending, savedFile >>

(* ---------- Rates (GraphEditor.tsx 359) ---------- *)
RateInputs == { 7 }
RateKeysEdited == { "Design-simple" }

SetRate(prev, work, val) ==
  [ w \in (DOMAIN prev) \cup { work } |-> IF w = work THEN val ELSE prev[w] ]

(* an updater that writes prev itself and hands it back *)
RateEditInPlace(prev, work, val) ==
  [ result |-> SetRate(prev, work, val), prev |-> SetRate(prev, work, val), same |-> TRUE ]

(* (prev) => ({ ...prev, [work]: val }): the table it returns, what the object
   prev holds afterwards, and whether the returned table is that object *)
RateEdit(prev, work, val) ==
  [ result |-> SetRate(prev, work, val), prev |-> prev, same |-> FALSE ]

handleRateChange(work, val) ==
  LET e == RateEdit(rates, work, val)
  IN /\ rates' = e.result
     /\ defaultRates' = IF ratesShared THEN e.prev ELSE defaultRates
     /\ ratesShared' = (ratesShared /\ e.same)
     /\ lastOp' = Done("handleRateChange")
     /\ UNCHANGED << auxVars, nodes, edges, idCounter, selectedNodeId, isDialogOpen,
                     formState, selectedEdge, edgeComment, pending, savedFile >>

(* ---------- Save / Load (GraphEditor.tsx 362-402) ---------- *)
(* JSON.stringify leaves out a key whose value is undefined; a document's
   absent key reads back as undefined *)
SaveNodeRecord(n) ==
  [ id |-> n.id, position |-> n.position, data |-> n.data, type |-> Undefined ]

SaveEdgeRecord(e) ==
  [ id |-> e.id, source |-> e.source, target |-> e.target, type |-> e.type,
    sourceHandle |-> Undefined, targetHandle |-> Undefined,
    comment |-> Undefined, label |-> Undefined ]

(* a document as JSON.parse returns it: whether the text parses, and for each
   top-level key whether the handler can read it (nodes, edges: a list;
   rates: present) and its value *)
Document(nds, eds, hasRates, rts) ==
  [ parses |-> TRUE, nodesOk |-> TRUE, nodes |-> nds, edgesOk |-> TRUE, edges |-> eds,
    hasRates |-> hasRates, rates |-> rts ]

Serialize(nds, eds, rts) ==
  Document([ i \in 1..Len(nds) |-> SaveNodeRecord(nds[i]) ],
           [ i \in 1..Len(eds) |-> SaveEdgeRecord(eds[i]) ],
           TRUE, rts)

handleSave ==
  /\ savedFile' = << Serialize(nodes, edges, rates) >>
  /\ lastOp' = Done("handleSave")
  /\ UNCHANGED << auxVars, rateObject, nodes, edges, rates, idCounter, selectedNodeId, isDialogOpen,
                  formState, selectedEdge, edgeComment, pending >>

(* data.nodes.map(n => ({ type: "graphNode", ...n })) *)
EnrichNode(n) ==
  [ id |-> n.id,
    type |-> IF n.type = Undefined THEN "graphNode" ELSE n.type,
    position |-> n.position,
    width |-> Unmeasured,
    height |-> Unmeasured,
    data |-> n.data ]

(* data.edges.map((e) => ({ ...e, type: e.type ?? "smoothstep" })) *)
EnrichEdge(e) == [ e EXCEPT !.type = IF e.type = Undefined THEN "smoothstep" ELSE e.type ]

(* data.rates || DEFAULT_RATES: the document's table, else the DEFAULT_RATES
   object with what it holds now *)
LoadedRates(doc) == IF doc.hasRates THEN doc.rates ELSE defaultRates

(* a counter taken from the ids: one above the largest numeric id *)
LoadedCounterAboveIds(doc) ==
  IF doc.nodes = << >> THEN 1
  ELSE 1 + NumericId(doc.nodes[CHOOSE i \in 1..Len(doc.nodes) :
                                 \A j \in 1..Len(doc.nodes) :
                                   NumericId(doc.nodes[j].id) <= NumericId(doc.nodes[i].id)].id)

(* idCounter.current = data.nodes.length + 1 *)
LoadedCounter(doc) == Len(doc.nodes) + 1

LoadedNodes(doc) == [ i \in 1..Len(doc.nodes) |-> EnrichNode(doc.nodes[i]) ]
LoadedEdges(doc) == [ i \in 1..Len(doc.edges) |-> EnrichEdge(doc.edges[i]) ]

(* the payload passes the reads the handler makes of it *)
NodesReadable(doc) == doc.parses /\ doc.nodesOk
WellFormed(doc) == NodesReadable(doc) /\ doc.edgesOk

(* reader.onload of handleFileChange, for the text `doc` *)
handleFileChange(doc) ==
  /\ IF ~NodesReadable(doc)
     THEN \* JSON.parse or data.nodes.map throws, the catch logs it
          /\ lastOp' = Caught("handleFileChange")
          /\ UNCHANGED << nodes, edges, rates, ratesShared, idCounter, formState >>
     ELSE /\ nodes' = LoadedNodes(doc)
          /\ formState' = FormSync(nodes', selectedNodeId, TRUE, formState)
          /\ IF ~doc.edgesOk
             THEN \* data.edges.map throws after setNodes was called
                  /\ lastOp' = Caught("handleFileChange")
                  /\ UNCHANGED << edges, rates, ratesShared, idCounter >>
             ELSE /\ edges' = LoadedEdges(doc)
                  /\ rates' = LoadedRates(doc)
                  /\ ratesShared' = ~doc.hasRates
                  /\ idCounter' = LoadedCounter(doc)
                  /\ lastOp' = Done("handleFileChange")
  /\ UNCHANGED << auxVars, defaultRates, selectedNodeId, isDialogOpen, selectedEdge,
                  edgeComment, pending, savedFile >>

(* ---------- the files offered to Load ---------- *)
DocNode(id, x, y, type) ==
  [ id |-> id, position |-> [ x |-> x, y |-> y ], data |-> DefaultData(id), type |-> type ]

DocEdge(id, src, tgt, type, comment) ==
  [ id |-> id, source |-> src, target |-> tgt, type |-> type,
    sourceHandle |-> Undefined, targetHandle |-> Undefined,
    comment |-> comment, label |-> comment ]

CustomRates == [ w \in WorkTypeSet |-> 10 ]
PartialRates == [ w \in { "Design-simple" } |-> 5 ]

(* not JSON at all *)
DocUnparseable ==
  [ parses |-> FALSE, nodesOk |-> FALSE, nodes |-> << >>, edgesOk |-> FALSE,
    edges |-> << >>, hasRates |-> FALSE, rates |-> << >> ]

(* { "edges": [] } : no nodes key *)
DocNoNodes ==
  [ parses |-> TRUE, nodesOk |-> FALSE, nodes |-> << >>, edgesOk |-> TRUE,
    edges |-> << >>, hasRates |-> FALSE, rates |-> << >> ]

(* { "nodes": [ node 1 at (5, 5) ], "rates": {...} } : no edges key *)
DocNoEdges ==
  [ parses |-> TRUE, nodesOk |-> TRUE, nodes |-> << DocNode("1", 5, 5, Undefined) >>,
    edgesOk |-> FALSE, edges |-> << >>, hasRates |-> TRUE, rates |-> CustomRates ]

(* what Save writes for node 2 alone, after node 1 and the edge e1-2 were
   removed from the graph of nodes 1 and 2 *)
DocSparse ==
  Document(<< DocNode("2", 250, 175, Undefined) >>, << >>, TRUE, DEFAULT_RATES)

(* { "nodes": [], "edges": [] } : an empty graph without a rates key *)
DocEmpty == Document(<< >>, << >>, FALSE, << >>)

(* a rate table that holds one of the six keys *)
DocPartialRates ==
  Document(<< DocNode("1", 0, 0, Undefined) >>, << >>, TRUE, PartialRates)

Documents == { DocUnparseable, DocNoNodes, DocNoEdges, DocSparse, DocEmpty, DocPartialRates }

PositionInputs == { [ x |-> 100, y |-> 50 ] }

(* ---------- the graph store under the editor's events ---------- *)
Next ==
  \/ \E id \in NodeIds : onNodeClick(id)
  \/ addNode
  \/ \E id \in NodeIds : onNodesChangeRemove(id)
  \/ \E id \in NodeIds, pos \in PositionInputs : onNodesChangePosition(id, pos)
  \/ \E id \in EdgeIds : onEdgesChangeRemove(id)
  \/ \E doc \in Documents : handleFileChange(doc)

Spec == Init /\ [][Next]_vars

(* ---------- edges, their comments, the rates, and Save followed by Load ---------- *)
NextPersist ==
  \/ addNode
  \/ \E src \in NodeIds, tgt \in NodeIds : src # tgt /\ onConnect(src, tgt)
  \/ \E i \in 1..Len(edges) : onEdgeDoubleClick(i)
  \/ \E text \in CommentInputs : editEdgeComment(text)
  \/ saveEdgeComment
  \/ \E work \in RateKeysEdited, val \in RateInputs : handleRateChange(work, val)
  \/ handleSave
  \/ \E i \in 1..Len(savedFile) : handleFileChange(savedFile[i])

SpecPersist == Init /\ [][NextPersist]_vars

(* ---------- Node dialog (GraphEditor.tsx 405-408, 458-519) ---------- *)
FormEdits == { << "label", "A" >> }
Images == { "imgA" }

(* setFormState((s) => ({ ...s, [field]: value })), from an input the dialog
   renders while it is open *)
editForm(field, value) ==
  /\ isDialogOpen
  /\ formState' = [ formState EXCEPT ![field] = value ]
  /\ lastOp' = Done("editForm")
  /\ UNCHANGED << auxVars, rateObject, nodes, edges, rates, idCounter, selectedNodeId, isDialogOpen,
                  selectedEdge, edgeComment, pending, savedFile >>

SavedData(n, form) == [ n EXCEPT !.data = form ]

saveNode ==
  /\ isDialogOpen
  /\ IF ~HasSelected(nodes, selectedNodeId)
     THEN /\ lastOp' = Done("saveNode")
          /\ UNCHANGED << nodes, isDialogOpen, formState >>
     ELSE /\ nodes' = [ i \in 1..Len(nodes) |->
                          IF nodes[i].id = selectedNode(nodes, selectedNodeId).id
                          THEN SavedData(nodes[i], formState) ELSE nodes[i] ]
          /\ isDialogOpen' = FALSE
          /\ formState' = FormSync(nodes', selectedNodeId, TRUE, formState)
          /\ lastOp' = Done("saveNode")
  /\ UNCHANGED << auxVars, rateObject, edges, rates, idCounter, selectedNodeId, selectedEdge, edgeComment,
                  pending, savedFile >>

(* a FileReader started by the paste handler: its onload closes over the
   isDialogOpen and selectedNodeId of the render that registered the handler *)
PasteReader(img) ==
  [ kind |-> "paste", dlg |-> isDialogOpen, sel |-> selectedNodeId, img |-> img ]

(* a FileReader started by handleImageUpload: its onload reads no state; dlg
   and sel record the state at the request *)
UploadReader(img) ==
  [ kind |-> "upload", dlg |-> isDialogOpen, sel |-> selectedNodeId, img |-> img ]

pasteImage(img) ==
  /\ Cardinality(pending) < MaxPending
  /\ pending' = pending \cup { PasteReader(img) }
  /\ requested' = requested \cup { [ img |-> img, target |-> selectedNodeId ] }
  /\ lastOp' = Done("pasteImage")
  /\ UNCHANGED << exportVars, summary, rateObject, nodes, edges, rates, idCounter, selectedNodeId, isDialogOpen,
                  formState, selectedEdge, edgeComment, savedFile >>

handleImageUpload(img) ==
  /\ isDialogOpen
  /\ Cardinality(pending) < MaxPending
  /\ pending' = pending \cup { UploadReader(img) }
  /\ requested' = requested \cup { [ img |-> img, target |-> selectedNodeId ] }
  /\ lastOp' = Done("handleImageUpload")
  /\ UNCHANGED << exportVars, summary, rateObject, nodes, edges, rates, idCounter, selectedNodeId, isDialogOpen,
                  formState, selectedEdge, edgeComment, savedFile >>

(* what the onload of reader r applies its image to *)
AppliesToForm(r) == r.kind = "upload" \/ r.dlg
AppliesToNode(r) == r.kind = "paste" /\ ~r.dlg /\ r.sel # Null

WithImage(n, img) == [ n EXCEPT !.data.image = img ]

readerOnload(r) ==
  /\ pending' = pending \ { r }
  /\ IF AppliesToForm(r)
     THEN /\ formState' = [ formState EXCEPT !.image = r.img ]
          /\ UNCHANGED nodes
     ELSE IF AppliesToNode(r)
     THEN /\ nodes' = [ i \in 1..Len(nodes) |->
                          IF nodes[i].id = r.sel THEN WithImage(nodes[i], r.img)
                          ELSE nodes[i] ]
          /\ formState' = FormSync(nodes', selectedNodeId, selectedNodeId = r.sel, formState)
     ELSE UNCHANGED << nodes, formState >>
  /\ lastOp' = Done("readerOnload")
  /\ UNCHANGED << auxVars, rateObject, edges, rates, idCounter, selectedNodeId, isDialogOpen,
                  selectedEdge, edgeComment, savedFile >>

(* the decode fails: no onload runs *)
readerError(r) ==
  /\ pending' = pending \ { r }
  /\ lastOp' = Done("readerError")
  /\ UNCHANGED << auxVars, rateObject, nodes, edges, rates, idCounter, selectedNodeId, isDialogOpen,
                  formState, selectedEdge, edgeComment, savedFile >>

(* the open dialog's overlay (fixed inset-0 z-50) covers the canvas: a node
   takes a click or a double click only while the dialog is closed *)
NextDialog ==
  \/ \E id \in NodeIds : ~isDialogOpen /\ onNodeClick(id)
  \/ \E id \in NodeIds : ~isDialogOpen /\ onNodeDoubleClick(id)
  \/ addNode
  \/ \E e \in FormEdits : editForm(e[1], e[2])
  \/ saveNode
  \/ \E img \in Images : pasteImage(img)
  \/ \E img \in Images : handleImageUpload(img)
  \/ \E r \in pending : readerOnload(r)
  \/ \E r \in pending : readerError(r)

SpecDialog == Init /\ [][NextDialog]_vars

(* ---------- exportImage (GraphEditor.tsx 255-326) ---------- *)
DefaultWidth == 250
DefaultHeight == 150
PAD == 64

Min2(a, b) == IF a < b THEN a ELSE b
Max2(a, b) == IF a > b THEN a ELSE b

(* n.width ?? 220: the card's CSS width as the fallback *)
EffWCardWidth(n) == IF n.width = Unmeasured THEN 220 ELSE n.width

(* n.width ?? 250, n.height ?? 150 *)
EffW(n) == IF n.width = Unmeasured THEN DefaultWidth ELSE n.width
EffH(n) == IF n.height = Unmeasured THEN DefaultHeight ELSE n.height

(* the reduce over a non-empty node list, started from its first node: the
   Infinity seeds of the code are absorbed by the first min and max *)
RECURSIVE Bounds(_)
Bounds(nds) ==
  LET n == nds[Len(nds)]
      own == [ minX |-> n.position.x, minY |-> n.position.y,
               maxX |-> n.position.x + EffW(n), maxY |-> n.position.y + EffH(n) ]
  IN IF Len(nds) = 1 THEN own
     ELSE LET acc == Bounds(SubSeq(nds, 1, Len(nds) - 1))
          IN [ minX |-> Min2(acc.minX, own.minX), minY |-> Min2(acc.minY, own.minY),
               maxX |-> Max2(acc.maxX, own.maxX), maxY |-> Max2(acc.maxY, own.maxY) ]

fullW(nds) == Bounds(nds).maxX - Bounds(nds).minX + PAD * 2
fullH(nds) == Bounds(nds).maxY - Bounds(nds).minY + PAD * 2

PxText(n) == ToString(n) \o "px"

ViewportTransform(nds) ==
  "translate(" \o PxText(PAD - Bounds(nds).minX) \o "," \o PxText(PAD - Bounds(nds).minY)
    \o ") scale(1)"

(* steps 2-4: save the container's styles, then patch them *)
SavedStyle(st, d) == [ w |-> st.w, h |-> st.h, tf |-> st.tf, vp |-> IF d.vp THEN st.vp ELSE Null ]

PatchedStyle(st, d, nds) ==
  [ w |-> PxText(fullW(nds)),
    h |-> PxText(fullH(nds)),
    tf |-> "translate(0,0)",
    vp |-> IF d.vp THEN ViewportTransform(nds) ELSE st.vp,
    edge |-> IF d.edgeLayer THEN "none" ELSE st.edge ]

(* step 6: roll the styles back *)
RestoredStyle(st, d, saved) ==
  [ w |-> saved.w,
    h |-> saved.h,
    tf |-> saved.tf,
    vp |-> IF d.vp /\ saved.vp # Null THEN saved.vp ELSE st.vp,
    edge |-> IF d.edgeLayer THEN "" ELSE st.edge ]

(* setHideBackground(true); await the 50 ms timer *)
exportStart ==
  /\ exportPc = "idle"
  /\ hideBackground' = TRUE
  /\ exportPc' = "waiting"
  /\ styleAtCall' = style
  /\ lastOp' = Done("exportStart")
  /\ UNCHANGED << nodes, edges, rates, rateObject, summary, requested, idCounter, selectedNodeId,
                  isDialogOpen, formState, selectedEdge, edgeComment, pending, savedFile,
                  style, dom, exportSaved, capture >>

(* the timer fired: the early returns, else measure, save and patch, and
   await toPng *)
exportPatch ==
  /\ exportPc = "waiting"
  /\ IF ~dom.flowRoot
     THEN /\ exportPc' = "idle"
          /\ lastOp' = Done("exportReturnedEarly")
          /\ UNCHANGED << style, exportSaved, capture >>
     ELSE /\ exportSaved' = SavedStyle(style, dom)
          /\ style' = PatchedStyle(style, dom, nodes)
          /\ capture' = [ width |-> fullW(nodes), height |-> fullH(nodes) ]
          /\ exportPc' = "rasterizing"
          /\ lastOp' = Done("exportPatch")
  /\ UNCHANGED << nodes, edges, rates, rateObject, summary, requested, idCounter, selectedNodeId,
                  isDialogOpen, formState, selectedEdge, edgeComment, pending, savedFile,
                  hideBackground, dom, styleAtCall >>

(* toPng resolved: roll back, show the background, download *)
exportRasterized ==
  /\ exportPc = "rasterizing"
  /\ style' = RestoredStyle(style, dom, exportSaved)
  /\ hideBackground' = FALSE
  /\ exportPc' = "idle"
  /\ lastOp' = Done("exportImage")
  /\ UNCHANGED << nodes, edges, rates, rateObject, summary, requested, idCounter, selectedNodeId,
                  isDialogOpen, formState, selectedEdge, edgeComment, pending, savedFile,
                  dom, exportSaved, styleAtCall, capture >>

(* toPng rejected: the rejection leaves exportImage at the await *)
exportRasterFailed ==
  /\ exportPc = "rasterizing"
  /\ exportPc' = "idle"
  /\ lastOp' = Thrown("exportImage")
  /\ UNCHANGED << nodes, edges, rates, rateObject, summary, requested, idCounter, selectedNodeId,
                  isDialogOpen, formState, selectedEdge, edgeComment, pending, savedFile,
                  hideBackground, style, dom, exportSaved, styleAtCall, capture >>

(* the diagrams and the visual states an export starts from *)
ExportPositions == { [ x |-> 0, y |-> 0 ], [ x |-> 0, y |-> 300 ], [ x |-> -40, y |-> 10 ] }
ExportSizes == { << Unmeasured, Unmeasured >>, << 220, 150 >> }

ExportNode(id, pos, size) ==
  [ createChildNode(pos, id, 0) EXCEPT !.width = size[1], !.height = size[2] ]

ExportNodeLists ==
  UNION { [ 1..k -> { ExportNode("n", p, z) : p \in ExportPositions, z \in ExportSizes } ]
          : k \in 1..MaxNodes }

StyleInputs ==
  [ w : { "100%" }, h : { "100%", "600px" }, tf : { "", "scale(2)" },
    vp : { "translate(0px, 0px) scale(1)", "translate(15px, -8px) scale(2)" },
    edge : { "", "translateZ(0)" } ]

InitExport ==
  /\ nodes \in ExportNodeLists
  /\ style \in StyleInputs
  /\ styleAtCall = style
  /\ dom \in [ flowRoot : BOOLEAN, vp : BOOLEAN, edgeLayer : BOOLEAN ]
  /\ edges = << >>
  /\ rates = DEFAULT_RATES
  /\ defaultRates = DEFAULT_RATES
  /\ ratesShared = FALSE
  /\ idCounter = 2
  /\ selectedNodeId = Null
  /\ isDialogOpen = FALSE
  /\ formState = DefaultData("tmp")
  /\ selectedEdge = Null
  /\ edgeComment = ""
  /\ pending = {}
  /\ savedFile = << >>
  /\ lastOp = Done("init")
  /\ hideBackground = FALSE
  /\ exportPc = "idle"
  /\ exportSaved = NothingSaved
  /\ capture = NoCapture
  /\ summary = NoSummary
  /\ requested = {}

NextExport ==
  \/ exportStart
  \/ exportPatch
  \/ exportRasterized
  \/ exportRasterFailed

SpecExport == InitExport /\ [][NextExport]_vars

(* ---------- Estimate helpers (GraphEditor.tsx 165-176) ---------- *)
(* Object.fromEntries(WORK_TYPES.map((k) => [k, 0])) *)
ZeroCounts == [ w \in WorkTypeSet |-> 0 ]

(* counts[key] += 1; for a key that is none of the six the sum is NaN under a
   key no row reads *)
Bump(counts, key) ==
  IF key \in DOMAIN counts THEN [ counts EXCEPT ![key] = @ + 1 ] ELSE counts

(* a forEach whose second line counts every node *)
RECURSIVE CountedCodingUnfiltered(_, _)
CountedCodingUnfiltered(nds, filter) ==
  IF nds = << >> THEN ZeroCounts
  ELSE LET data == nds[Len(nds)].data
           c0 == CountedCodingUnfiltered(SubSeq(nds, 1, Len(nds) - 1), filter)
           c1 == IF filter = Null \/ data.designType = filter
                 THEN Bump(c0, "Design-" \o data.designDifficulty) ELSE c0
       IN Bump(c1, "Coding-" \o data.codingDifficulty)

(* a forEach whose second line tests the design type again *)
RECURSIVE CountedByDesignTwice(_, _)
CountedByDesignTwice(nds, filter) ==
  IF nds = << >> THEN ZeroCounts
  ELSE LET data == nds[Len(nds)].data
           c0 == CountedByDesignTwice(SubSeq(nds, 1, Len(nds) - 1), filter)
           c1 == IF filter = Null \/ data.designType = filter
                 THEN Bump(c0, "Design-" \o data.designDifficulty) ELSE c0
       IN IF filter = Null \/ data.designType = filter
          THEN Bump(c1, "Coding-" \o data.codingDifficulty) ELSE c1

(* nodes.forEach(({ data }) => { ... }): the counts after the last node *)
RECURSIVE Counted(_, _)
Counted(nds, filter) ==
  IF nds = << >> THEN ZeroCounts
  ELSE LET data == nds[Len(nds)].data
           c0 == Counted(SubSeq(nds, 1, Len(nds) - 1), filter)
           c1 == IF filter = Null \/ data.designType = filter
                 THEN Bump(c0, "Design-" \o data.designDifficulty) ELSE c0
       IN IF filter = Null \/ data.codingType = filter
          THEN Bump(c1, "Coding-" \o data.codingDifficulty) ELSE c1

(* rts holds a rate for each of the six work types *)
buildSummary(nds, rts, filter) ==
  LET counts == Counted(nds, filter)
  IN [ i \in 1..Len(WORK_TYPES) |->
         [ work |-> WORK_TYPES[i],
           rate |-> rts[WORK_TYPES[i]],
           qty |-> counts[WORK_TYPES[i]],
           sum |-> counts[WORK_TYPES[i]] * rts[WORK_TYPES[i]] ] ]

(* rows.reduce((a, r) => a + r.sum, 0) *)
RECURSIVE Total(_)
Total(rows) ==
  IF rows = << >> THEN 0
  ELSE Total(SubSeq(rows, 1, Len(rows) - 1)) + rows[Len(rows)].sum

(* one summary table is rendered for the filter f *)
renderSummary(f) ==
  /\ LET rows == buildSummary(nodes, rates, f)
     IN summary' = [ filter |-> f, rows |-> rows, total |-> Total(rows) ]
  /\ lastOp' = Done("buildSummary")
  /\ UNCHANGED << exportVars, requested, rateObject, nodes, edges, rates, idCounter, selectedNodeId,
                  isDialogOpen, formState, selectedEdge, edgeComment, pending, savedFile >>

(* the node lists, rate tables and filters the summary is computed for *)
CreateTypes == { "new", "adapt" }
Difficulties == { "simple", "medium", "complex" }
Filters == { Null } \cup CreateTypes

SummaryData ==
  { [ DefaultData("n") EXCEPT !.designType = dt, !.designDifficulty = dd,
                              !.codingType = ct, !.codingDifficulty = cd ]
    : dt \in CreateTypes, dd \in Difficulties, ct \in CreateTypes, cd \in Difficulties }

SummaryNode(data) == [ createChildNode([ x |-> 0, y |-> 0 ], "n", 0) EXCEPT !.data = data ]

SummaryNodeLists ==
  UNION { [ 1..k -> { SummaryNode(d) : d \in SummaryData } ] : k \in 0..MaxSummaryNodes }

SummaryRates == { DEFAULT_RATES, CustomRates }

InitSummary ==
  /\ nodes \in SummaryNodeLists
  /\ rates \in SummaryRates
  /\ edges = << >>
  /\ defaultRates = DEFAULT_RATES
  /\ ratesShared = FALSE
  /\ idCounter = 2
  /\ selectedNodeId = Null
  /\ isDialogOpen = FALSE
  /\ formState = DefaultData("tmp")
  /\ selectedEdge = Null
  /\ edgeComment = ""
  /\ pending = {}
  /\ savedFile = << >>
  /\ lastOp = Done("init")
  /\ hideBackground = FALSE
  /\ exportPc = "idle"
  /\ style = MountedStyle
  /\ styleAtCall = MountedStyle
  /\ dom = [ flowRoot |-> TRUE, vp |-> TRUE, edgeLayer |-> TRUE ]
  /\ exportSaved = NothingSaved
  /\ capture = NoCapture
  /\ summary = NoSummary
  /\ requested = {}

NextSummary == \E f \in Filters : renderSummary(f)

SpecSummary == InitSummary /\ [][NextSummary]_vars

(* ---------- Load over further files, with the rate inputs ---------- *)
(* two nodes and the edge between them, no rates key *)
DocNoRates ==
  Document(<< DocNode("1", 0, 0, Undefined), DocNode("2", 0, 150, Undefined) >>,
           << DocEdge("e1-2", "1", "2", "smoothstep", Undefined) >>, FALSE, << >>)

(* an edge whose target names no node of the document *)
DocDangling ==
  Document(<< DocNode("1", 0, 0, Undefined) >>,
           << DocEdge("e1-9", "1", "9", "smoothstep", Undefined) >>, TRUE, DEFAULT_RATES)

(* a node record that carries a type key of its own *)
DocTyped ==
  Document(<< DocNode("1", 0, 0, "custom") >>, << >>, TRUE, DEFAULT_RATES)

LoadDocuments == { DocNoRates, DocDangling, DocTyped, DocSparse, DocEmpty, DocNoEdges }

NextLoad ==
  \/ addNode
  \/ \E id \in NodeIds : onNodesChangeRemove(id)
  \/ \E work \in RateKeysEdited, val \in RateInputs : handleRateChange(work, val)
  \/ \E doc \in LoadDocuments : handleFileChange(doc)

SpecLoad == Init /\ [][NextLoad]_vars

(* ---------- the node dialog over a loaded graph ---------- *)
NextEdit ==
  \/ handleFileChange(DocSparse)
  \/ addNode
  \/ \E id \in NodeIds : onNodeDoubleClick(id)
  \/ \E e \in FormEdits : editForm(e[1], e[2])
  \/ saveNode

SpecEdit == Init /\ [][NextEdit]_vars

(* ---------- the edge comment dialog over a loaded graph ---------- *)
(* what Save writes for the graph of nodes 1, 2, 3 (both children of node 1)
   once node 2 and its edge e1-2 are removed *)
DocGap ==
  Document(<< DocNode("1", 250, 25, Undefined), DocNode("3", 250, 175, Undefined) >>,
           << DocEdge("e1-3", "1", "3", "smoothstep", Undefined) >>, TRUE, DEFAULT_RATES)

NextEdgeNote ==
  \/ handleFileChange(DocGap)
  \/ addNode
  \/ \E i \in 1..Len(edges) : onEdgeDoubleClick(i)
  \/ \E text \in CommentInputs : editEdgeComment(text)
  \/ saveEdgeComment

SpecEdgeNote == Init /\ [][NextEdgeNote]_vars

(* ---------- connections drawn between the node cards ---------- *)
NextConnect ==
  \/ addNode
  \/ \E src \in NodeIds, tgt \in NodeIds : onConnect(src, tgt)
  \/ \E id \in EdgeIds : onEdgesChangeRemove(id)

SpecConnect == Init /\ [][NextConnect]_vars

(* ====================== properties ====================== *)

(* every document offered to Load has pairwise distinct node ids and no edge
   that names a node missing from it *)
DocIdsDistinct(doc) ==
  \A i, j \in 1..Len(doc.nodes) : i # j => doc.nodes[i].id # doc.nodes[j].id
DocEdgesResolved(doc) ==
  \A i \in 1..Len(doc.edges) :
    \E j, k \in 1..Len(doc.nodes) :
      doc.edges[i].source = doc.nodes[j].id /\ doc.edges[i].target = doc.nodes[k].id

(* C1: node ids are unique in every reachable state of the store (Spec: the
   seeded store under addNode, node removal and loads of documents whose own
   node ids are pairwise distinct). *)
C1_NodeIdsUnique ==
  /\ \A doc \in Documents : DocIdsDistinct(doc)
  /\ \A i, j \in 1..Len(nodes) : i # j => nodes[i].id # nodes[j].id

(* C2: in every reachable state the id counter is strictly greater than the
   numeric value of every node id in the store. *)
C2_CounterAboveIds ==
  \A i \in 1..Len(nodes) : NumericId(nodes[i].id) < idCounter

(* C3: every edge in the store has a source and a target that are ids of
   nodes in the store (Spec: the seeded store under addNode, node and edge
   removal changes and loads of documents without dangling edges). *)
C3_EdgesReferToNodes ==
  /\ \A doc \in Documents : DocEdgesResolved(doc)
  /\ \A i \in 1..Len(edges) : edges[i].source \in NodeIds /\ edges[i].target \in NodeIds

(* C4: a load of a payload that fails structural validation (it does not
   parse, or its nodes or its edges are missing or not a list) leaves nodes,
   edges, rates and the id counter as they were. *)
C4_MalformedLoadChangesNothing ==
  [][ \A doc \in Documents :
        (~WellFormed(doc) /\ handleFileChange(doc))
          => UNCHANGED << nodes, edges, rates, idCounter >> ]_vars

FullRates(r) == DOMAIN r = WorkTypeSet

(* C5: in every reachable state with a full rate table and no dangling edge,
   loading the document that Save writes gives back the same nodes (ids,
   positions, data), the same edges with the same attributes and the same
   rates. *)
C5_SaveLoadRoundTrip ==
  (FullRates(rates) /\ \A i \in 1..Len(edges) :
                          edges[i].source \in NodeIds /\ edges[i].target \in NodeIds)
    => LET doc == Serialize(nodes, edges, rates)
       IN /\ Len(LoadedNodes(doc)) = Len(nodes)
          /\ \A i \in 1..Len(nodes) :
               /\ LoadedNodes(doc)[i].id = nodes[i].id
               /\ LoadedNodes(doc)[i].position = nodes[i].position
               /\ LoadedNodes(doc)[i].data = nodes[i].data
          /\ LoadedEdges(doc) = edges
          /\ LoadedRates(doc) = rates

(* C6: right after Save, every edge whose comment was set to a non-empty text
   in the edge-comment dialog is in the written document with that comment
   and label, and loading the document yields the edge with them. *)
C6_SavedDocumentKeepsComments ==
  lastOp.op = "handleSave" =>
    \A i \in 1..Len(edges) :
      edges[i].comment \notin { Undefined, "" } =>
        /\ savedFile[1].edges[i].comment = edges[i].comment
        /\ savedFile[1].edges[i].label = edges[i].comment
        /\ LoadedEdges(savedFile[1])[i].comment = edges[i].comment
        /\ LoadedEdges(savedFile[1])[i].label = edges[i].comment

(* C7: when exportImage ends because rasterization threw, the five styles it
   patched are back at their values from before the export. *)
C7_RestoredWhenRasterizationThrows ==
  lastOp = Thrown("exportImage") => style = styleAtCall

(* C8: after a successful exportImage each of the five styles equals its
   value from before the export, whatever that value was. *)
C8_RestoredAfterSuccess ==
  lastOp = Done("exportImage") => style = styleAtCall

(* the context reader r was started in is gone: its dialog was closed, or the
   node it targeted directly is no longer the selected one *)
StaleContext(r) ==
  \/ r.dlg /\ ~isDialogOpen
  \/ ~r.dlg /\ r.sel # Null /\ selectedNodeId # r.sel

(* C9: a decode callback whose originating context is no longer valid changes
   neither any node's data nor the edit form. *)
C9_StaleDecodeChangesNothing ==
  [][ \A r \in pending :
        (StaleContext(r) /\ readerOnload(r)) => UNCHANGED << nodes, formState >> ]_vars

(* the document's rates, each missing key taken from the defaults *)
RatesPerKey(doc) ==
  [ w \in WorkTypeSet |-> IF w \in DOMAIN doc.rates THEN doc.rates[w] ELSE DEFAULT_RATES[w] ]

(* C10: a load of a well-formed document whose rate table is present leaves
   all six keys with a rate: the document's for the keys it holds, the
   default for the keys it lacks. *)
C10_MissingRateKeysDefaulted ==
  [][ \A doc \in Documents :
        (WellFormed(doc) /\ doc.hasRates /\ handleFileChange(doc))
          => rates' = RatesPerKey(doc) ]_vars

(* C11: a load of a well-formed document without a rates key ends normally
   and leaves the six rates at the fixed default table 100, 200, 300, 150,
   300, 450, whatever rate edits came before it. *)
C11_AbsentRatesLoadDefaults ==
  [][ \A doc \in LoadDocuments :
        (WellFormed(doc) /\ ~doc.hasRates /\ handleFileChange(doc))
          => /\ lastOp' = Done("handleFileChange")
             /\ DOMAIN rates' = WorkTypeSet
             /\ rates'["Design-simple"] = 100 /\ rates'["Design-medium"] = 200
             /\ rates'["Design-complex"] = 300 /\ rates'["Coding-simple"] = 150
             /\ rates'["Coding-medium"] = 300 /\ rates'["Coding-complex"] = 450 ]_vars

(* a document with nodes and an edge but no rates key was loaded and the
   store holds the default table by reference *)
C11_Witness ==
  /\ lastOp = Done("handleFileChange")
  /\ ratesShared
  /\ Len(nodes) = 2 /\ Len(edges) = 1
  /\ rates = DEFAULT_RATES

(* the six-key quantities of a summary *)
Qty(rows, k) == rows[k].qty

(* C12: for every rate table and node list with design and coding types in
   {new, adapt}, each of the six quantities of the unfiltered summary is the
   sum of the quantities of the "new" summary and the "adapt" summary. *)
C12_FilterPartition ==
  LET all == buildSummary(nodes, rates, Null)
      new == buildSummary(nodes, rates, "new")
      adapt == buildSummary(nodes, rates, "adapt")
  IN \A k \in 1..Len(WORK_TYPES) : Qty(all, k) = Qty(new, k) + Qty(adapt, k)

(* the unfiltered summary was rendered and one of its rows counts a node that
   only the "new" summary has and a node that only the "adapt" summary has *)
C12_Witness ==
  /\ lastOp = Done("buildSummary")
  /\ summary.filter = Null
  /\ \E k \in 1..Len(WORK_TYPES) :
       /\ Qty(summary.rows, k) = 2
       /\ Qty(buildSummary(nodes, rates, "new"), k) = 1
       /\ Qty(buildSummary(nodes, rates, "adapt"), k) = 1

(* how many nodes the filter f lets into a design bucket, into a coding bucket *)
DesignMatches(d, f) ==
  Cardinality({ i \in 1..Len(nodes) :
                  nodes[i].data.designDifficulty = d
                    /\ (f = Null \/ nodes[i].data.designType = f) })
CodingMatches(d, f) ==
  Cardinality({ i \in 1..Len(nodes) :
                  nodes[i].data.codingDifficulty = d
                    /\ (f = Null \/ nodes[i].data.codingType = f) })

(* C13: a rendered summary has the six rows Design-simple, Design-medium,
   Design-complex, Coding-simple, Coding-medium, Coding-complex in that order;
   the quantity of Design-d is the number of nodes of design difficulty d
   that the filter admits by design type, the quantity of Coding-d the number
   of nodes of coding difficulty d it admits by coding type; each row's sum
   is its rate times its quantity, and the total is the sum of the six sums. *)
C13_SummaryCountingRule ==
  lastOp = Done("buildSummary") =>
    LET rows == summary.rows
        f == summary.filter
    IN /\ Len(rows) = 6
       /\ << rows[1].work, rows[2].work, rows[3].work,
             rows[4].work, rows[5].work, rows[6].work >>
            = << "Design-simple", "Design-medium", "Design-complex",
                 "Coding-simple", "Coding-medium", "Coding-complex" >>
       /\ rows[1].qty = DesignMatches("simple", f)
       /\ rows[2].qty = DesignMatches("medium", f)
       /\ rows[3].qty = DesignMatches("complex", f)
       /\ rows[4].qty = CodingMatches("simple", f)
       /\ rows[5].qty = CodingMatches("medium", f)
       /\ rows[6].qty = CodingMatches("complex", f)
       /\ \A k \in 1..6 : /\ rows[k].rate = rates[rows[k].work]
                           /\ rows[k].sum = rows[k].rate * rows[k].qty
       /\ summary.total = rows[1].sum + rows[2].sum + rows[3].sum
                            + rows[4].sum + rows[5].sum + rows[6].sum

(* one node, design {new, complex}, coding {adapt, simple}, default rates,
   under "new": Design-complex has quantity 1 and sum 300, the rest 0 *)
C13_Witness ==
  /\ lastOp = Done("buildSummary")
  /\ summary.filter = "new"
  /\ rates = DEFAULT_RATES
  /\ Len(nodes) = 1
  /\ nodes[1].data.designType = "new" /\ nodes[1].data.designDifficulty = "complex"
  /\ nodes[1].data.codingType = "adapt" /\ nodes[1].data.codingDifficulty = "simple"
  /\ summary.rows[3].qty = 1 /\ summary.rows[3].sum = 300
  /\ \A k \in { 1, 2, 4, 5, 6 } : summary.rows[k].qty = 0
  /\ summary.total = 300

(* the node addNode takes as parent: the first node whose id is the selected
   id, else the first node of the list *)
ParentOfNewNode ==
  IF \E i \in 1..Len(nodes) : nodes[i].id = selectedNodeId
  THEN nodes[CHOOSE i \in 1..Len(nodes) :
               nodes[i].id = selectedNodeId /\ \A j \in 1..(i - 1) : nodes[j].id # selectedNodeId]
  ELSE nodes[1]

(* C14: addNode on a non-empty store appends exactly one node and exactly one
   edge: the node has the parent's x, the parent's y + 150 and the default
   data, the edge goes from the parent to the new node, and the nodes and
   edges that were there are unchanged and keep their order. *)
C14_AddNodeAppendsChild ==
  [][ (Len(nodes) > 0 /\ addNode) =>
        LET parent == ParentOfNewNode
            new == nodes'[Len(nodes')]
            edge == edges'[Len(edges')]
        IN /\ Len(nodes') = Len(nodes) + 1
           /\ SubSeq(nodes', 1, Len(nodes)) = nodes
           /\ Len(edges') = Len(edges) + 1
           /\ SubSeq(edges', 1, Len(edges)) = edges
           /\ new.position.x = parent.position.x
           /\ new.position.y = parent.position.y + 150
           /\ new.data = [ label |-> "Node " \o new.id, comment |-> "", image |-> Null,
                           uploading |-> "no", designType |-> "new",
                           designDifficulty |-> "simple", codingType |-> "new",
                           codingDifficulty |-> "simple" ]
           /\ edge.source = parent.id
           /\ edge.target = new.id ]_vars

(* addNode ran with the second node selected, which stood at (100, 50): the
   third node is at (100, 200) and the last edge joins the two *)
C14_Witness ==
  /\ lastOp = Done("addNode")
  /\ Len(nodes) = 3
  /\ selectedNodeId = nodes[2].id
  /\ nodes[2].id # nodes[1].id
  /\ nodes[2].position = [ x |-> 100, y |-> 50 ]
  /\ nodes[3].position = [ x |-> 100, y |-> 200 ]
  /\ edges[Len(edges)].source = nodes[2].id
  /\ edges[Len(edges)].target = nodes[3].id

(* C15: addNode on a store without nodes raises no error and leaves nodes,
   edges and the id counter unchanged. *)
C15_AddNodeOnEmptyStoreIsNoOp ==
  [][ (Len(nodes) = 0 /\ addNode)
        => (~lastOp'.thrown /\ UNCHANGED << nodes, edges, idCounter >>) ]_vars

(* C16: a load of a well-formed document with an edge whose source or target
   is the id of none of its nodes does not crash, and afterwards either the
   store holds no edge with a missing end or the load has reported an error. *)
C16_LoadDropsDanglingEdges ==
  [][ \A doc \in LoadDocuments :
        (WellFormed(doc) /\ ~DocEdgesResolved(doc) /\ handleFileChange(doc))
          => /\ ~lastOp'.thrown
             /\ \/ lastOp'.caught
                \/ \A i \in 1..Len(edges') :
                     /\ \E j \in 1..Len(nodes') : nodes'[j].id = edges'[i].source
                     /\ \E j \in 1..Len(nodes') : nodes'[j].id = edges'[i].target ]_vars

(* C17: every node in the store carries the kind marker "graphNode", also
   after a load of a node record that has a type field of its own. *)
C17_NodesAreGraphNodes ==
  \A i \in 1..Len(nodes) : nodes[i].type = "graphNode"

(* C19: after every load that succeeds the id counter is the number of nodes
   of the loaded document plus one. *)
C19_CounterIsLoadedCountPlusOne ==
  [][ \A doc \in LoadDocuments :
        (handleFileChange(doc) /\ lastOp' = Done("handleFileChange"))
          => (idCounter' = Len(doc.nodes) + 1 /\ idCounter' = Len(nodes') + 1) ]_vars

(* the one-node document whose node has id "2" was loaded: the counter is 2 *)
C19_Witness ==
  /\ lastOp = Done("handleFileChange")
  /\ Len(nodes) = 1
  /\ nodes[1].id = "2"
  /\ idCounter = 2

(* the extent of the node boxes, a node without reported size counting as
   250 wide and 150 high *)
BoxLeft == { nodes[i].position.x : i \in 1..Len(nodes) }
BoxTop == { nodes[i].position.y : i \in 1..Len(nodes) }
BoxRight ==
  { nodes[i].position.x + (IF nodes[i].width = Unmeasured THEN 250 ELSE nodes[i].width)
    : i \in 1..Len(nodes) }
BoxBottom ==
  { nodes[i].position.y + (IF nodes[i].height = Unmeasured THEN 150 ELSE nodes[i].height)
    : i \in 1..Len(nodes) }
Least(S) == CHOOSE m \in S : \A v \in S : m <= v
Greatest(S) == CHOOSE m \in S : \A v \in S : v <= m

(* C18: for a non-empty node list, exportImage sizes the capture and the
   diagram root to width max(x + w) - min(x) + 2*64 and height
   max(y + h) - min(y) + 2*64, and sets the content layer, where the diagram
   has one, to translate(-min(x) + 64, -min(y) + 64) at scale 1. *)
C18_ExportBoundingBox ==
  lastOp = Done("exportPatch") =>
    LET width == Greatest(BoxRight) - Least(BoxLeft) + 2 * 64
        height == Greatest(BoxBottom) - Least(BoxTop) + 2 * 64
    IN /\ capture = [ width |-> width, height |-> height ]
       /\ style.w = ToString(width) \o "px"
       /\ style.h = ToString(height) \o "px"
       /\ dom.vp => style.vp = "translate(" \o ToString(-Least(BoxLeft) + 64) \o "px,"
                                  \o ToString(-Least(BoxTop) + 64) \o "px) scale(1)"

(* the export of nodes at (0, 0) and (0, 300), both 220 by 150, has patched
   the styles: the capture is 348 by 578 *)
C18_Witness ==
  /\ lastOp = Done("exportPatch")
  /\ Len(nodes) = 2
  /\ nodes[1].position = [ x |-> 0, y |-> 0 ] /\ nodes[2].position = [ x |-> 0, y |-> 300 ]
  /\ \A i \in 1..2 : nodes[i].width = 220 /\ nodes[i].height = 150
  /\ capture = [ width |-> 348, height |-> 578 ]
  /\ style.w = "348px" /\ style.h = "578px"
  /\ dom.vp /\ style.vp = "translate(64px,64px) scale(1)"

(* C20: saveNode replaces the data record of the selected node with the form
   state and changes nothing else: the other nodes, every node's id, position
   and place in the list, the edges, the rates and the id counter stay as
   they were; when the selected id names no node, saveNode changes no node,
   edge, rate or counter; it raises no error in either case. *)
C20_SaveNodeFrame ==
  [][ saveNode =>
        /\ ~lastOp'.thrown
        /\ UNCHANGED << edges, rates, idCounter >>
        /\ IF \E i \in 1..Len(nodes) : nodes[i].id = selectedNodeId
           THEN LET k == CHOOSE i \in 1..Len(nodes) :
                           /\ nodes[i].id = selectedNodeId
                           /\ \A j \in 1..(i - 1) : nodes[j].id # selectedNodeId
                IN /\ Len(nodes') = Len(nodes)
                   /\ \A i \in 1..Len(nodes) :
                        nodes'[i] = IF i = k THEN [ nodes[i] EXCEPT !.data = formState ]
                                    ELSE nodes[i]
           ELSE nodes' = nodes ]_vars

(* C21: saving the edge comment t for the selected edge id sets the comment
   and the label of the edge with that id to t, leaves that edge's id,
   source, target and type and every other edge and all nodes unchanged, and
   clears the edge selection. *)
C21_EdgeCommentFrame ==
  [][ saveEdgeComment =>
        /\ selectedEdge' = Null
        /\ UNCHANGED nodes
        /\ Len(edges') = Len(edges)
        /\ IF \E i \in 1..Len(edges) : edges[i].id = selectedEdge
           THEN LET k == CHOOSE i \in 1..Len(edges) :
                           /\ edges[i].id = selectedEdge
                           /\ \A j \in 1..(i - 1) : edges[j].id # selectedEdge
                IN \A i \in 1..Len(edges) :
                     edges'[i] = IF i = k
                                 THEN [ edges[i] EXCEPT !.comment = edgeComment,
                                                        !.label = edgeComment ]
                                 ELSE edges[i]
           ELSE edges' = edges ]_vars

(* an edge of the store joins src to tgt through the handles a drag from
   src's bottom handle to tgt's top handle reports *)
ConnectedThroughSameHandles(src, tgt) ==
  \E i \in 1..Len(edges) :
    /\ edges[i].source = src /\ edges[i].sourceHandle = src \o "-out"
    /\ edges[i].target = tgt /\ edges[i].targetHandle = tgt \o "-in"

AppendsOneEdge(src, tgt) ==
  /\ Len(edges') = Len(edges) + 1
  /\ SubSeq(edges', 1, Len(edges)) = edges
  /\ edges'[Len(edges')].source = src
  /\ edges'[Len(edges')].target = tgt

(* C22 as stated: a connection between two existing nodes always appends a
   new edge, also when the pair is connected already; existing edges and all
   nodes are unchanged. *)
C22_ConnectAlwaysAppends ==
  [][ \A src \in NodeIds, tgt \in NodeIds :
        onConnect(src, tgt) => (AppendsOneEdge(src, tgt) /\ UNCHANGED nodes) ]_vars

(* C22 as amended: a connection between two existing nodes appends one new
   edge unless an edge with the same source, target and handles is in the
   store already, and then changes nothing; a pair that is connected through
   other handles gets a further edge; existing edges and all nodes are
   unchanged. *)
C22_ConnectAppendsUnlessPresent ==
  [][ \A src \in NodeIds, tgt \in NodeIds :
        onConnect(src, tgt) =>
          /\ UNCHANGED nodes
          /\ IF ConnectedThroughSameHandles(src, tgt)
             THEN edges' = edges
             ELSE AppendsOneEdge(src, tgt) ]_vars

(* a connection was drawn from node 1 to node 2, which addNode had joined
   already: the store holds both edges *)
C22_Witness ==
  /\ lastOp = Done("onConnect")
  /\ Len(edges) = 2
  /\ edges[1].id = "e1-2" /\ edges[1].source = "1" /\ edges[1].target = "2"
  /\ edges[2].source = "1" /\ edges[2].target = "2"
  /\ edges[2].sourceHandle = "1-out" /\ edges[2].targetHandle = "2-in"

(* C23: an image is in a node's data only if a decode of that image was
   requested while that node was the edit or paste target. *)
C23_ImageInRequestedNode ==
  \A i \in 1..Len(nodes) :
    nodes[i].data.image # Null =>
      \E r \in requested : r.img = nodes[i].data.image /\ r.target = nodes[i].id

(* C24: when a double click on a node has opened the edit dialog, the edit
   form equals the data record of that node. *)
C24_FormIsNodeDataWhenOpened ==
  (lastOp = Done("onNodeDoubleClick") /\ HasSelected(nodes, selectedNodeId))
    => /\ isDialogOpen
       /\ formState = selectedNode(nodes, selectedNodeId).data

(* C25: whenever exportImage has finished, by a successful export, by an
   early return or by rasterization throwing, the background-hidden flag is
   false again. *)
C25_BackgroundShownAfterExport ==
  exportPc = "idle" => hideBackground = FALSE

====
